---- MODULE Spec2Model ----
(***************************************************************************)
(* State-machine model of ginit (src/index.js): the start-up check, the    *)
(* GitHub authentication workflow, the repository creation, the .gitignore *)
(* generator and the local git init/commit/push chain.  Each action is one *)
(* callback of the script, run to completion.                              *)
(***************************************************************************)
EXTENDS Integers, Sequences, FiniteSets, TLC

VARIABLES
  pc,           \* position of the script: which continuation is pending
  dirEntries,   \* fs.readdirSync('.') : the working directory listing
  gitignore,    \* content of the .gitignore file, Absent when there is none
  argv,         \* minimist positional arguments argv._
  cwdBase,      \* files.getCurrentDirectoryBase()
  prefs,        \* new Preferences('ginit') : the github.token entry
  credentials,  \* answers of the credential prompt
  auth,         \* github.auth : the API client's active authentication
  calls,        \* remote API calls issued so far, in order
  prompts,      \* prompts opened so far (inquirer.prompt invocations)
  rejected,     \* number of answers rejected by a validate function
  answers,      \* answers of the createRepo prompt
  authResult,   \* what githubAuth delivered to its callback
  repoResult,   \* what createRepo delivered to its callback
  setupResult,  \* what setupRepo delivered to its callback
  gitQueue,     \* simple-git tasks still queued
  gitCmds,      \* git commands executed so far, with their outcome
  spinner,      \* whether a CLI spinner is running
  console,      \* lines printed by the script
  atStart,      \* the directory listing and the preferences at start-up
  prefsRead,    \* whether the preferences file has been opened
  writes,       \* number of writes (writeFileSync or touch) of .gitignore
  createResult, \* what authorization.create delivered to its callback
  ignorePrompt, \* the checkbox question: its choices and its answer
  typed,        \* what the user typed at the name and description questions
  earlier       \* the runs of the tool that ended before this one

vars == <<pc, dirEntries, gitignore, argv, cwdBase, prefs, credentials, auth,
          calls, prompts, rejected, answers, authResult, repoResult,
          setupResult, gitQueue, gitCmds, spinner, console, atStart,
          prefsRead, writes, createResult, ignorePrompt, typed, earlier>>

-----------------------------------------------------------------------------
(* Bounds of the model *)

MaxRejected == 2
MaxRuns == 2

-----------------------------------------------------------------------------
(* JavaScript values *)

Undefined == "<undefined>"
Null == "<null>"
Absent == "<absent>"

\* JavaScript truthiness of a string-or-missing value
Truthy(v) == v \notin {"", Undefined, Null, Absent}

\* a || b
Or(a, b) == IF Truthy(a) THEN a ELSE b

\* _.without(list, '.git', '.gitignore')
RECURSIVE without(_, _)
without(list, excluded) ==
  IF list = <<>> THEN <<>>
  ELSE IF Head(list) \in excluded THEN without(Tail(list), excluded)
       ELSE <<Head(list)>> \o without(Tail(list), excluded)

\* join putting the separator after every element
RECURSIVE join_trailing(_, _)
join_trailing(list, sep) ==
  IF list = <<>> THEN ""
  ELSE Head(list) \o sep \o join_trailing(Tail(list), sep)

\* Array.prototype.join(sep)
RECURSIVE join(_, _)
join(list, sep) ==
  IF list = <<>> THEN ""
  ELSE IF Len(list) = 1 THEN Head(list)
       ELSE Head(list) \o sep \o join(Tail(list), sep)

\* the elements of a sequence
Range(s) == {s[i] : i \in 1..Len(s)}

\* the sub-sequence of list picked by a set of positions (checkbox answers
\* come back in the order of the choices)
RECURSIVE pick(_, _, _)
pick(list, idx, i) ==
  IF i > Len(list) THEN <<>>
  ELSE IF i \in idx THEN <<list[i]>> \o pick(list, idx, i + 1)
       ELSE pick(list, idx, i + 1)

-----------------------------------------------------------------------------
(* Inputs *)

Usernames == {"", "alice"}
Passwords == {"", "secret"}
TwoFactorCodes == {"", "123456"}
CachedTokens == {Absent, "", "tok_cached"}
IssuedTokens == {"", "tok_new"}
\* errors of the client library: an API error response carries a JSON body
\* in err.message, a transport error (refused connection, timeout) plain text
ApiErrors == {[code |-> 401, json |-> TRUE], [code |-> 422, json |-> TRUE],
              [code |-> 500, json |-> TRUE], [code |-> 500, json |-> FALSE]}
Argvs == {<<>>, <<"myrepo">>, <<"myrepo", "a test repo">>}
CwdBases == {"", "proj"}
NameInputs == {"", "other"}
DescriptionInputs == {"", "text"}
Visibilities == {"public", "private"}
SshUrls == {"", "git@github.com:alice/repo.git"}
Listings == {<<>>, <<".gitignore">>, <<"README.md", "node_modules">>,
             <<"node_modules", "README.md">>,
             <<".gitignore", "README.md", "node_modules">>}

NoErr == [code |-> 0, json |-> FALSE]
NoResult == [called |-> FALSE, err |-> NoErr, value |-> Undefined]
NoAuth == [type |-> "none", username |-> Undefined, password |-> Undefined,
           twofactor |-> Undefined, token |-> Undefined]
NoCredentials == [username |-> Undefined, password |-> Undefined,
                  twofactor |-> Undefined]
NoAnswers == [name |-> Undefined, description |-> Undefined,
              visibility |-> Undefined]
NoIgnorePrompt == [choices |-> <<>>, answered |-> FALSE, ignore |-> <<>>]
NoTyped == [name |-> Undefined, description |-> Undefined]

-----------------------------------------------------------------------------
Init ==
  /\ pc = "start"
  /\ dirEntries \in Listings \cup {<<".git">> \o l : l \in Listings}
  /\ gitignore = IF ".gitignore" \in Range(dirEntries) THEN "old" ELSE Absent
  /\ argv \in Argvs
  /\ cwdBase \in CwdBases
  /\ prefs \in CachedTokens
  /\ credentials = NoCredentials
  /\ auth = NoAuth
  /\ calls = <<>>
  /\ prompts = <<>>
  /\ rejected = 0
  /\ answers = NoAnswers
  /\ authResult = NoResult
  /\ repoResult = NoResult
  /\ setupResult = NoResult
  /\ gitQueue = <<>>
  /\ gitCmds = <<>>
  /\ spinner = FALSE
  /\ console = <<>>
  /\ atStart = [dirEntries |-> dirEntries, gitignore |-> gitignore,
                prefs |-> prefs]
  /\ prefsRead = FALSE
  /\ writes = 0
  /\ createResult = NoResult
  /\ ignorePrompt = NoIgnorePrompt
  /\ typed = NoTyped
  /\ earlier = <<>>

-----------------------------------------------------------------------------
(* createRepo: opens its prompt (lines 140-172) *)
createRepo(pr) ==
  /\ prompts' = Append(pr, "createRepo")
  /\ pc' = "repo_name"

(* The callback handed to githubAuth (lines 262-291), entered with the     *)
(* console and prompt logs as its caller left them.  JSON.parse throws on  *)
(* a message that is not JSON, which ends the script inside the callback.  *)
switchErrCode(err) ==
  IF err.code = 401 THEN <<"Couldn't log you in. Please try again.">>
  ELSE IF err.code = 422 THEN <<"You already have an access token.">>
       ELSE <<>>

\* authCallback without the test of authed (line 274)
authCallback_noAuthedTest(err, authed, con, pr) ==
  /\ authResult' = [called |-> TRUE, err |-> err, value |-> authed]
  /\ IF err /= NoErr /\ ~err.json
       THEN /\ pc' = "crashed"
            /\ console' = con
            /\ prompts' = pr
       ELSE /\ console' = Append(IF err /= NoErr
                                   THEN con \o <<"<api message>">> \o switchErrCode(err)
                                   ELSE con, "Successfully authenticated!")
            /\ createRepo(pr)

\* authCallback asking for the credentials again after a failure
authCallback_retry(err, authed, con, pr) ==
  /\ authResult' = [called |-> TRUE, err |-> err, value |-> authed]
  /\ IF Truthy(authed)
       THEN /\ console' = Append(con, "Successfully authenticated!")
            /\ createRepo(pr)
       ELSE /\ console' = con \o switchErrCode(err)
            /\ prompts' = Append(pr, "getGithubCredentials")
            /\ pc' = "cred_username"

authCallback(err, authed, con, pr) ==
  /\ authResult' = [called |-> TRUE, err |-> err, value |-> authed]
  /\ IF err /= NoErr /\ ~err.json
       THEN /\ pc' = "crashed"
            /\ console' = con
            /\ prompts' = pr
       ELSE LET reported == IF err /= NoErr
                              THEN con \o <<"<api message>">> \o switchErrCode(err)
                              ELSE con
            IN IF Truthy(authed)
                 THEN /\ console' = Append(reported, "Successfully authenticated!")
                      /\ createRepo(pr)
                 ELSE /\ console' = reported
                      /\ prompts' = pr
                      /\ pc' = IF err /= NoErr THEN "auth_failed"
                                               ELSE "auth_notoken"

\* githubAuth without the switch to the oauth token (lines 254-257)
githubAuth_noSwitch(err, token, throws, con, pr) ==
  /\ auth' = auth
  /\ IF err /= NoErr THEN authCallback(err, Undefined, con, pr)
                     ELSE authCallback(NoErr, token, con, pr)

(* githubAuth's callback to getGithubToken (lines 250-259).  The client    *)
(* library may refuse an oauth authentication without a token by throwing; *)
(* throws says whether this build of the library does.                     *)
githubAuth(err, token, throws, con, pr) ==
  IF err /= NoErr
    THEN /\ auth' = auth
         /\ authCallback(err, Undefined, con, pr)
    ELSE IF ~Truthy(token) /\ throws
           THEN /\ auth' = auth
                /\ pc' = "crashed"
                /\ console' = con
                /\ prompts' = pr
                /\ authResult' = authResult
           ELSE /\ auth' = [NoAuth EXCEPT !.type = "oauth", !.token = token]
                /\ authCallback(NoErr, token, con, pr)

(* initialize (lines 22-35): whether the start-up check ends the process   *)
initialize == ".git" \in Range(dirEntries)

\* getGithubToken without the look-up of the cached token (lines 88-90)
getGithubToken_noCache(con) ==
  /\ console' = con
  /\ prompts' = Append(prompts, "getGithubCredentials")
  /\ pc' = "cred_username"
  /\ UNCHANGED <<auth, authResult>>

(* getGithubToken up to its first continuation (lines 85-92): a cached     *)
(* token is handed to githubAuth's callback at once, otherwise the         *)
(* credential prompt is opened                                             *)
getGithubToken(con) ==
  IF prefs /= Absent /\ Truthy(prefs)
    THEN githubAuth(NoErr, prefs, FALSE, con, prompts)
    ELSE /\ console' = con
         /\ prompts' = Append(prompts, "getGithubCredentials")
         /\ pc' = "cred_username"
         /\ UNCHANGED <<auth, authResult>>

\* the script with initialize reporting but not exiting (line 32)
script_noExit ==
  /\ pc = "start"
  /\ prefsRead' = TRUE
  /\ getGithubToken(IF initialize
                      THEN <<"Ginit", "Alreaady a git repository!">>
                      ELSE <<"Ginit">>)
  /\ UNCHANGED <<earlier, ignorePrompt, typed, atStart, writes, createResult,
                 dirEntries, gitignore, argv, cwdBase, prefs, credentials,
                 calls, rejected, answers, repoResult, setupResult, gitQueue,
                 gitCmds, spinner>>

(* The script's synchronous start: the banner and initialize, then         *)
(* githubAuth (line 262)                                                   *)
script ==
  /\ pc = "start"
  /\ IF initialize
       THEN /\ console' = <<"Ginit", "Alreaady a git repository!">>
            /\ pc' = "exited"
            /\ UNCHANGED <<auth, prompts, authResult, prefsRead>>
       ELSE /\ prefsRead' = TRUE
            /\ getGithubToken(<<"Ginit">>)
  /\ UNCHANGED <<earlier, ignorePrompt, typed, atStart, writes, createResult,
                 dirEntries, gitignore, argv, cwdBase, prefs, credentials,
                 calls, rejected, answers, repoResult, setupResult, gitQueue,
                 gitCmds, spinner>>

(* getGithubCredentials (lines 49-79): three questions; username and       *)
(* password are validated non-empty and asked again when rejected.         *)
\* validate accepting every answer
validate_always(value) == TRUE

validate(value) == Len(value) > 0

answerUsername(value) ==
  /\ pc = "cred_username"
  /\ IF validate(value)
       THEN /\ credentials' = [credentials EXCEPT !.username = value]
            /\ pc' = "cred_password"
            /\ UNCHANGED rejected
       ELSE /\ rejected < MaxRejected
            /\ rejected' = rejected + 1
            /\ UNCHANGED <<credentials, pc>>
  /\ UNCHANGED <<earlier, ignorePrompt, typed, atStart, prefsRead, writes, createResult,
                 dirEntries, gitignore, argv, cwdBase, prefs, auth, calls,
                 prompts, answers, authResult, repoResult, setupResult,
                 gitQueue, gitCmds, spinner, console>>

answerPassword(value) ==
  /\ pc = "cred_password"
  /\ IF validate(value)
       THEN /\ credentials' = [credentials EXCEPT !.password = value]
            /\ pc' = "cred_twofactor"
            /\ UNCHANGED rejected
       ELSE /\ rejected < MaxRejected
            /\ rejected' = rejected + 1
            /\ UNCHANGED <<credentials, pc>>
  /\ UNCHANGED <<earlier, ignorePrompt, typed, atStart, prefsRead, writes, createResult,
                 dirEntries, gitignore, argv, cwdBase, prefs, auth, calls,
                 prompts, answers, authResult, repoResult, setupResult,
                 gitQueue, gitCmds, spinner, console>>

(* The last answer resolves the prompt and runs getGithubToken's           *)
(* credential callback (lines 92-117): basic authentication, then the      *)
(* authorization.create request, with the OTP header when a code was given *)
\* the OTP header attached whatever the code is (line 113)
OtpHeader_always(creds) == creds.twofactor

OtpHeader(creds) ==
  IF Truthy(creds.twofactor) THEN creds.twofactor ELSE Absent

answerTwoFactor(value) ==
  /\ pc = "cred_twofactor"
  /\ LET creds == [credentials EXCEPT !.twofactor = value]
     IN /\ credentials' = creds
        /\ spinner' = TRUE
        /\ auth' = [type |-> "basic", username |-> creds.username,
                    password |-> creds.password, twofactor |-> creds.twofactor,
                    token |-> Undefined]
        /\ calls' = calls \o
             <<[op |-> "authenticate", auth |-> "basic", otp |-> Absent,
                data |-> NoAnswers],
               [op |-> "authorization.create", auth |-> "basic",
                otp |-> OtpHeader(creds), data |-> NoAnswers]>>
  /\ pc' = "token_wait"
  /\ UNCHANGED <<earlier, ignorePrompt, typed, atStart, prefsRead, writes, createResult,
                 dirEntries, gitignore, argv, cwdBase, prefs, prompts,
                 rejected, answers, authResult, repoResult, setupResult,
                 gitQueue, gitCmds, console>>

\* the callback not writing the token to the preferences (lines 126-128)
authorizationCreated_noStore(err, token, throws) ==
  /\ pc = "token_wait"
  /\ spinner' = FALSE
  /\ createResult' = [called |-> TRUE, err |-> err, value |-> token]
  /\ prefs' = prefs
  /\ IF err /= NoErr
       THEN githubAuth(err, Undefined, throws, console, prompts)
       ELSE githubAuth(NoErr, IF Truthy(token) THEN token ELSE Undefined,
                       throws, console, prompts)
  /\ UNCHANGED <<earlier, ignorePrompt, typed, atStart, prefsRead, writes,
                 dirEntries, gitignore, argv, cwdBase, credentials, calls,
                 rejected, answers, repoResult, setupResult, gitQueue,
                 gitCmds>>

\* the callback storing res.data.token without testing it (line 125)
authorizationCreated_storeAlways(err, token, throws) ==
  /\ pc = "token_wait"
  /\ spinner' = FALSE
  /\ createResult' = [called |-> TRUE, err |-> err, value |-> token]
  /\ prefs' = IF err /= NoErr THEN prefs ELSE token
  /\ IF err /= NoErr
       THEN githubAuth(err, Undefined, throws, console, prompts)
       ELSE githubAuth(NoErr, IF Truthy(token) THEN token ELSE Undefined,
                       throws, console, prompts)
  /\ UNCHANGED <<earlier, ignorePrompt, typed, atStart, prefsRead, writes,
                 dirEntries, gitignore, argv, cwdBase, credentials, calls,
                 rejected, answers, repoResult, setupResult, gitQueue,
                 gitCmds>>

(* The authorization.create callback (lines 117-132) *)
authorizationCreated(err, token, throws) ==
  /\ pc = "token_wait"
  /\ spinner' = FALSE
  /\ createResult' = [called |-> TRUE, err |-> err, value |-> token]
  /\ IF err /= NoErr
       THEN /\ prefs' = prefs
            /\ githubAuth(err, Undefined, throws, console, prompts)
       ELSE IF Truthy(token)
              THEN /\ prefs' = token
                   /\ githubAuth(NoErr, token, throws, console, prompts)
              ELSE /\ prefs' = prefs
                   /\ githubAuth(NoErr, Undefined, throws, console, prompts)
  /\ UNCHANGED <<earlier, ignorePrompt, typed, atStart, prefsRead, writes,
                 dirEntries, gitignore, argv, cwdBase, credentials, calls,
                 rejected, answers, repoResult, setupResult, gitQueue,
                 gitCmds>>

-----------------------------------------------------------------------------
(* inquirer's input question: an empty input yields the question's         *)
(* default, or '' when the default is null                                 *)
filterInput(input, default) ==
  IF ~Truthy(input) THEN (IF default = Null THEN "" ELSE default) ELSE input

\* argv._[i], undefined past the end
argvAt(i) == IF i <= Len(argv) THEN argv[i] ELSE Undefined

\* default of the name question (line 148) and of the description (line 160)
\* the name default preferring the directory's base name
nameDefault_cwdFirst == Or(cwdBase, argvAt(1))

nameDefault == Or(argvAt(1), cwdBase)
descriptionDefault == Or(argvAt(2), Null)

\* the name question without its validate function (lines 149-155)
answerName_noValidate(input) ==
  /\ pc = "repo_name"
  /\ answers' = [answers EXCEPT !.name = filterInput(input, nameDefault)]
  /\ typed' = [typed EXCEPT !.name = input]
  /\ pc' = "repo_description"
  /\ UNCHANGED <<earlier, ignorePrompt, atStart, prefsRead, writes, createResult,
                 dirEntries, gitignore, argv, cwdBase, prefs, credentials,
                 auth, calls, prompts, authResult, repoResult, setupResult,
                 gitQueue, gitCmds, spinner, console, rejected>>

(* createRepo's questions (lines 143-170) *)
answerName(input) ==
  /\ pc = "repo_name"
  /\ LET value == filterInput(input, nameDefault)
     IN IF validate(value)
          THEN /\ answers' = [answers EXCEPT !.name = value]
               /\ typed' = [typed EXCEPT !.name = input]
               /\ pc' = "repo_description"
               /\ UNCHANGED rejected
          ELSE /\ rejected < MaxRejected
               /\ rejected' = rejected + 1
               /\ UNCHANGED <<answers, pc, typed>>
  /\ UNCHANGED <<earlier, ignorePrompt, atStart, prefsRead, writes, createResult,
                 dirEntries, gitignore, argv, cwdBase, prefs, credentials,
                 auth, calls, prompts, authResult, repoResult, setupResult,
                 gitQueue, gitCmds, spinner, console>>

answerDescription(input) ==
  /\ pc = "repo_description"
  /\ answers' = [answers EXCEPT
                   !.description = filterInput(input, descriptionDefault)]
  /\ typed' = [typed EXCEPT !.description = input]
  /\ pc' = "repo_visibility"
  /\ UNCHANGED <<earlier, ignorePrompt, atStart, prefsRead, writes, createResult,
                 dirEntries, gitignore, argv, cwdBase, prefs, credentials,
                 auth, calls, prompts, rejected, authResult, repoResult,
                 setupResult, gitQueue, gitCmds, spinner, console>>

(* The last answer resolves the prompt: the request is assembled and       *)
(* github.repos.create is called (lines 172-183)                           *)
repoData(ans) ==
  [name |-> ans.name, description |-> ans.description,
   private |-> (ans.visibility = "private")]

answerVisibility(choice) ==
  /\ pc = "repo_visibility"
  /\ LET ans == [answers EXCEPT !.visibility = choice]
     IN /\ answers' = ans
        /\ calls' = Append(calls, [op |-> "repos.create", auth |-> auth.type,
                                   otp |-> Absent, data |-> repoData(ans)])
  /\ spinner' = TRUE
  /\ pc' = "repo_wait"
  /\ UNCHANGED <<earlier, ignorePrompt, typed, atStart, prefsRead, writes, createResult,
                 dirEntries, gitignore, argv, cwdBase, prefs, credentials,
                 auth, prompts, rejected, authResult, repoResult, setupResult,
                 gitQueue, gitCmds, console>>

(* setupRepo (lines 228-243): starts the spinner and queues the chain of   *)
(* git tasks; the completion function is the last task of the chain        *)
\* the chain with the commit before the staging
gitChain_commitFirst(url) ==
  << [cmd |-> "init", args |-> <<>>],
     [cmd |-> "commit", args |-> <<"Initial commit">>],
     [cmd |-> "add", args |-> <<".gitignore">>],
     [cmd |-> "add", args |-> <<"./*">>],
     [cmd |-> "addRemote", args |-> <<"origin", url>>],
     [cmd |-> "push", args |-> <<"origin", "master">>],
     [cmd |-> "then", args |-> <<>>] >>

gitChain(url) ==
  << [cmd |-> "init", args |-> <<>>],
     [cmd |-> "add", args |-> <<".gitignore">>],
     [cmd |-> "add", args |-> <<"./*">>],
     [cmd |-> "commit", args |-> <<"Initial commit">>],
     [cmd |-> "addRemote", args |-> <<"origin", url>>],
     [cmd |-> "push", args |-> <<"origin", "master">>],
     [cmd |-> "then", args |-> <<>>] >>

setupRepo(url) ==
  /\ spinner' = TRUE
  /\ gitQueue' = gitChain(url)
  /\ pc' = "git_run"

\* touch emptying a file that exists
touch_truncate(content) == ""

\* touch('.gitignore'): creates the file empty, or leaves its content
touch(content) == IF content = Absent THEN "" ELSE content

\* the listing once .gitignore exists
withEntry(list, name) ==
  IF name \in Range(list) THEN list ELSE Append(list, name)

\* the choices of the checkbox question (line 200)
filelist == without(dirEntries, {".git", ".gitignore"})

\* createGitignore calling back without waiting for the answer
createGitignore_noWait(url) ==
  /\ prompts' = IF Len(filelist) > 0 THEN Append(prompts, "createGitignore")
                                     ELSE prompts
  /\ ignorePrompt' = [choices |-> filelist, answered |-> FALSE,
                      ignore |-> <<>>]
  /\ UNCHANGED <<gitignore, dirEntries, writes>>
  /\ setupRepo(url)

(* createGitignore (lines 199-226), called with the url setupRepo will get *)
createGitignore(url) ==
  IF Len(filelist) > 0
    THEN /\ prompts' = Append(prompts, "createGitignore")
         /\ pc' = "ignore_select"
         /\ spinner' = FALSE
         /\ ignorePrompt' = [choices |-> filelist, answered |-> FALSE,
                              ignore |-> <<>>]
         /\ UNCHANGED <<gitignore, dirEntries, gitQueue, writes>>
    ELSE /\ gitignore' = touch(gitignore)
         /\ ignorePrompt' = ignorePrompt
         /\ writes' = writes + 1
         /\ dirEntries' = withEntry(dirEntries, ".gitignore")
         /\ prompts' = prompts
         /\ setupRepo(url)

\* reposCreated going on to createGitignore after an error (lines 277-280)
reposCreated_noHalt(err, sshUrl) ==
  /\ pc = "repo_wait"
  /\ repoResult' = [called |-> TRUE, err |-> err, value |-> sshUrl]
  /\ console' = IF err /= NoErr THEN Append(console, "An error has occured")
                                ELSE console
  /\ createGitignore(sshUrl)
  /\ UNCHANGED <<earlier, typed, atStart, prefsRead, createResult,
                 argv, cwdBase, prefs, credentials, auth, calls, rejected,
                 answers, authResult, setupResult, gitCmds>>

(* The repos.create callback (lines 184-190) and createRepo's callback in  *)
(* the script (lines 276-289)                                              *)
reposCreated(err, sshUrl) ==
  /\ pc = "repo_wait"
  /\ IF err /= NoErr
       THEN /\ repoResult' = [called |-> TRUE, err |-> err, value |-> Undefined]
            /\ console' = Append(console, "An error has occured")
            /\ pc' = "repo_failed"
            /\ spinner' = FALSE
            /\ UNCHANGED <<gitignore, dirEntries, gitQueue, prompts, writes,
                                 ignorePrompt>>
       ELSE /\ repoResult' = [called |-> TRUE, err |-> NoErr, value |-> sshUrl]
            /\ console' = console
            /\ IF Truthy(sshUrl)
                 THEN createGitignore(sshUrl)
                 ELSE /\ pc' = "repo_nourl"
                      /\ spinner' = FALSE
                      /\ UNCHANGED <<gitignore, dirEntries, gitQueue, prompts, writes,
                                 ignorePrompt>>
  /\ UNCHANGED <<earlier, typed, atStart, prefsRead, createResult,
                 argv, cwdBase, prefs, credentials, auth, calls, rejected,
                 answers, authResult, setupResult, gitCmds>>

(* The checkbox answer (lines 213-220): the selection is written joined by *)
(* newlines, an empty selection touches the file; then setupRepo           *)
answerIgnore(idx) ==
  /\ pc = "ignore_select"
  /\ LET ignore == pick(ignorePrompt.choices, idx, 1)
     IN /\ ignorePrompt' = [ignorePrompt EXCEPT !.answered = TRUE,
                                                !.ignore = ignore]
        /\ gitignore' = IF Len(ignore) > 0 THEN join(ignore, "\n")
                                           ELSE touch(gitignore)
  /\ writes' = writes + 1
  /\ dirEntries' = withEntry(dirEntries, ".gitignore")
  /\ setupRepo(repoResult.value)
  /\ UNCHANGED <<earlier, typed, atStart, prefsRead, createResult,
                 argv, cwdBase, prefs, credentials, auth, calls, prompts,
                 rejected, answers, authResult, repoResult, setupResult,
                 gitCmds, console>>

(* One task of the simple-git queue.  A failed command empties the queue,  *)
(* so neither the later commands nor the completion function run; the      *)
(* completion function stops the spinner and calls back with no argument   *)
(* (lines 239-242), on which the script prints "All done!" (lines 282-286) *)
gitTask(ok) ==
  /\ pc = "git_run"
  /\ gitQueue /= <<>>
  /\ LET task == Head(gitQueue)
     IN IF task.cmd = "then"
          THEN /\ ok
               /\ spinner' = FALSE
               /\ gitQueue' = Tail(gitQueue)
               /\ setupResult' = [called |-> TRUE, err |-> NoErr,
                                  value |-> Undefined]
               /\ console' = Append(console, "All done!")
               /\ pc' = "done"
               /\ UNCHANGED <<gitCmds, dirEntries>>
          ELSE /\ gitCmds' = Append(gitCmds, [cmd |-> task.cmd,
                                             args |-> task.args, ok |-> ok])
               /\ gitQueue' = IF ok THEN Tail(gitQueue) ELSE <<>>
               /\ pc' = IF ok THEN "git_run" ELSE "git_failed"
               /\ dirEntries' = IF ok /\ task.cmd = "init"
                                  THEN withEntry(dirEntries, ".git")
                                  ELSE dirEntries
               /\ UNCHANGED <<spinner, setupResult, console>>
  /\ UNCHANGED <<earlier, ignorePrompt, typed, atStart, prefsRead, writes, createResult,
                 gitignore, argv, cwdBase, prefs, credentials, auth, calls,
                 prompts, rejected, answers, authResult, repoResult>>

-----------------------------------------------------------------------------
Next ==
  \/ script
  \/ \E value \in Usernames : answerUsername(value)
  \/ \E value \in Passwords : answerPassword(value)
  \/ \E value \in TwoFactorCodes : answerTwoFactor(value)
  \/ \E err \in ApiErrors, throws \in BOOLEAN :
       authorizationCreated(err, Undefined, throws)
  \/ \E token \in IssuedTokens, throws \in BOOLEAN :
       authorizationCreated(NoErr, token, throws)
  \/ \E input \in NameInputs : answerName(input)
  \/ \E input \in DescriptionInputs : answerDescription(input)
  \/ \E choice \in Visibilities : answerVisibility(choice)
  \/ \E err \in ApiErrors : reposCreated(err, Undefined)
  \/ \E sshUrl \in SshUrls : reposCreated(NoErr, sshUrl)
  \/ \E idx \in SUBSET (1..Len(ignorePrompt.choices)) : answerIgnore(idx)
  \/ \E ok \in BOOLEAN : gitTask(ok)

Spec == Init /\ [][Next]_vars

\* every pending prompt is answered and every pending call or git command
\* returns: a step is taken whenever one is possible
FairSpec == Spec /\ WF_vars(Next)

-----------------------------------------------------------------------------
(* The tool run again after a run has ended (or was left hanging on its    *)
(* spinner): the process starts afresh (lines 1-43) in the same directory  *)
(* or in another one, and finds the preferences as the last run left them. *)
Ended == {"exited", "auth_failed", "auth_notoken", "crashed", "repo_failed",
          "repo_nourl", "git_failed", "done"}

authenticated ==
  authResult.called /\ authResult.err = NoErr /\ Truthy(authResult.value)

exchanged ==
  createResult.called /\ createResult.err = NoErr
    /\ Truthy(createResult.value)

rerun(sameDir, listing) ==
  /\ pc \in Ended
  /\ Len(earlier) < MaxRuns - 1
  /\ earlier' = Append(earlier,
                       [token |-> IF authenticated THEN authResult.value
                                  ELSE Undefined,
                        exchanged |-> authenticated /\ exchanged])
  /\ pc' = "start"
  /\ dirEntries' = IF sameDir THEN dirEntries ELSE listing
  /\ gitignore' = IF sameDir THEN gitignore
                  ELSE IF ".gitignore" \in Range(listing) THEN "old"
                       ELSE Absent
  /\ atStart' = [dirEntries |-> dirEntries', gitignore |-> gitignore',
                 prefs |-> prefs]
  /\ credentials' = NoCredentials
  /\ auth' = NoAuth
  /\ calls' = <<>>
  /\ prompts' = <<>>
  /\ rejected' = 0
  /\ answers' = NoAnswers
  /\ authResult' = NoResult
  /\ repoResult' = NoResult
  /\ setupResult' = NoResult
  /\ gitQueue' = <<>>
  /\ gitCmds' = <<>>
  /\ spinner' = FALSE
  /\ console' = <<>>
  /\ prefsRead' = FALSE
  /\ writes' = 0
  /\ createResult' = NoResult
  /\ ignorePrompt' = NoIgnorePrompt
  /\ typed' = NoTyped
  /\ UNCHANGED <<argv, cwdBase, prefs>>

NextRerun ==
  \/ Next
  \/ \E sameDir \in BOOLEAN, listing \in Listings : rerun(sameDir, listing)

SpecRerun == Init /\ [][NextRerun]_vars

-----------------------------------------------------------------------------
(* Properties *)

\* number of remote calls of one operation issued so far
Count(op) == Cardinality({i \in 1..Len(calls) : calls[i].op = op})

\* number of times a prompt has been opened
Opened(name) == Cardinality({i \in 1..Len(prompts) : prompts[i] = name})

Printed(line) == line \in Range(console)

createRepoStarted == Opened("createRepo") > 0 \/ Count("repos.create") > 0

\* C1: createRepo (its prompt and the repos.create call) is started only
\* when githubAuth delivered no error and a non-empty token; when the
\* authentication ended with an error, without a token or in a crash,
\* createRepo is never started.
C1_CreateRepoOnlyWithToken ==
  /\ createRepoStarted =>
       /\ authResult.called
       /\ authResult.err = NoErr
       /\ Truthy(authResult.value)
  /\ pc \in {"auth_failed", "auth_notoken", "crashed"} => ~createRepoStarted

C1_Witness ==
  /\ Count("repos.create") = 1
  /\ createResult.called
  /\ authResult.value = "tok_new"

\* C2: when .git exists at start-up the process exits right after reporting
\* it: the preferences are not read, no prompt is opened, no remote call is
\* made, .gitignore is not written and no git command is queued or run.
C2_ExitWhenAlreadyRepository ==
  ".git" \in Range(atStart.dirEntries) =>
    /\ pc \in {"start", "exited"}
    /\ pc = "exited" => console = <<"Ginit", "Alreaady a git repository!">>
    /\ ~prefsRead
    /\ prompts = <<>>
    /\ calls = <<>>
    /\ auth = NoAuth
    /\ writes = 0
    /\ gitignore = atStart.gitignore
    /\ gitQueue = <<>>
    /\ gitCmds = <<>>

C2_Witness == pc = "exited" /\ atStart.prefs = "tok_cached"

\* C3: with a token cached at start-up, githubAuth delivers exactly that
\* token, the credential prompt is never opened and neither a basic
\* authentication nor an authorization.create call is issued.
C3_CachedTokenSkipsExchange ==
  (Truthy(atStart.prefs) /\ ".git" \notin Range(atStart.dirEntries)
     /\ pc /= "start") =>
    /\ authResult = [called |-> TRUE, err |-> NoErr, value |-> atStart.prefs]
    /\ auth.type = "oauth" /\ auth.token = atStart.prefs
    /\ Opened("getGithubCredentials") = 0
    /\ Count("authenticate") = 0
    /\ Count("authorization.create") = 0
    /\ ~createResult.called
    /\ prefs = atStart.prefs

C3_Witness == atStart.prefs = "tok_cached" /\ pc = "repo_wait"

\* C4: without a cached token, once the credentials are collected the run
\* has issued exactly one basic authentication followed by exactly one
\* authorization.create call, and that call carries the OTP header with
\* the supplied code exactly when the code is non-empty.
C4_OneExchange ==
  /\ Count("authenticate") <= 1
  /\ Count("authorization.create") <= 1
  /\ credentials.twofactor = Undefined =>
       Count("authenticate") = 0 /\ Count("authorization.create") = 0
  /\ credentials.twofactor /= Undefined =>
       /\ ~Truthy(atStart.prefs)
       /\ Truthy(credentials.username) /\ Truthy(credentials.password)
       /\ Len(calls) >= 2
       /\ calls[1].op = "authenticate"
       /\ calls[2].op = "authorization.create"
       /\ Count("authenticate") = 1
       /\ Count("authorization.create") = 1
       /\ calls[2].otp = IF credentials.twofactor = "" THEN Absent
                         ELSE credentials.twofactor

C4_Witness ==
  /\ createResult.called
  /\ Len(calls) >= 2
  /\ calls[2].otp = "123456"

\* C5: the git commands run are init, add .gitignore, add ./*, commit
\* "Initial commit", addRemote origin <url>, push origin master, in that
\* order and each at most once, and no command runs after a failed one.
C5_GitOrder ==
  LET expected == << <<"init", <<>> >>, <<"add", <<".gitignore">> >>,
                     <<"add", <<"./*">> >>,
                     <<"commit", <<"Initial commit">> >>,
                     <<"addRemote", <<"origin", repoResult.value>> >>,
                     <<"push", <<"origin", "master">> >> >>
  IN /\ Len(gitCmds) <= Len(expected)
     /\ \A i \in 1..Len(gitCmds) :
          /\ i <= Len(expected)
          /\ <<gitCmds[i].cmd, gitCmds[i].args>> = expected[i]
          /\ i < Len(gitCmds) => gitCmds[i].ok
     /\ gitCmds /= <<>> => Truthy(repoResult.value)

C5_Witness ==
  /\ Len(gitCmds) = 6
  /\ gitCmds[6].ok
  /\ gitCmds[5].args = <<"origin", "git@github.com:alice/repo.git">>

\* C6: when authorization.create returns an error the script prints the
\* "Couldn't log you in" line for status 401, the "You already have an
\* access token" line for status 422 and a failure message for every other
\* status, and no token is written to the preferences.
C6_TokenErrorReported ==
  (createResult.called /\ createResult.err /= NoErr) =>
    /\ createResult.err.code = 401 =>
         Printed("Couldn't log you in. Please try again.")
    /\ createResult.err.code = 422 =>
         Printed("You already have an access token.")
    /\ createResult.err.code \notin {401, 422} => Printed("<api message>")
    /\ prefs = atStart.prefs

\* C7: when authorization.create succeeds without a token value, githubAuth
\* delivers an error to its callback and nothing is written to the
\* preferences.
C7_NoTokenIsAnError ==
  (createResult.called /\ createResult.err = NoErr
     /\ ~Truthy(createResult.value)) =>
    /\ authResult.called
    /\ authResult.err /= NoErr
    /\ prefs = atStart.prefs

\* C8: the credential prompt is opened at most once and the basic
\* authentication and authorization.create calls are issued at most once;
\* after a failed exchange the run stays at its end: the prompt is not
\* opened again and no further remote call is made.
C8_OneShot ==
  /\ Opened("getGithubCredentials") <= 1
  /\ Count("authenticate") <= 1
  /\ Count("authorization.create") <= 1
  /\ (createResult.called
        /\ (createResult.err /= NoErr \/ ~Truthy(createResult.value))) =>
       /\ pc \in {"auth_failed", "auth_notoken", "crashed"}
       /\ Opened("getGithubCredentials") = 1
       /\ Len(prompts) = 1
       /\ Len(calls) = 2

C8_Witness == pc = "auth_failed" /\ createResult.err.code = 401

\* C9: when repos.create fails the script prints "An error has occured" and
\* stops: the call is not issued again, the .gitignore prompt is not
\* opened, .gitignore is not written and no git command is queued or run.
C9_RepoFailureHalts ==
  (repoResult.called /\ repoResult.err /= NoErr) =>
    /\ pc = "repo_failed"
    /\ Printed("An error has occured")
    /\ Count("repos.create") = 1
    /\ Opened("createGitignore") = 0
    /\ writes = 0
    /\ gitignore = atStart.gitignore
    /\ gitQueue = <<>>
    /\ gitCmds = <<>>

C9_Witness == pc = "repo_failed" /\ repoResult.err.code = 422

\* C10: when a git command fails, setupRepo's callback receives the error
\* and "All done!" is not printed; "All done!" is printed only after the
\* push has succeeded.
C10_GitFailureSurfaced ==
  /\ (gitCmds /= <<>> /\ ~gitCmds[Len(gitCmds)].ok) =>
       /\ setupResult.called
       /\ setupResult.err /= NoErr
       /\ ~Printed("All done!")
  /\ Printed("All done!") =>
       /\ Len(gitCmds) = 6
       /\ gitCmds[6].cmd = "push"
       /\ gitCmds[6].ok

\* the listing at start-up holds nothing but .git and .gitignore
emptyListing == Range(atStart.dirEntries) \subseteq {".git", ".gitignore"}

\* createGitignore has completed without a selection to write
completedEmpty ==
  /\ writes >= 1
  /\ \/ emptyListing
     \/ ignorePrompt.answered /\ ignorePrompt.ignore = <<>>

\* C11 as stated: whenever createGitignore completes with an empty listing
\* or an empty selection, .gitignore exists and is empty, whether or not it
\* existed before; with an empty listing no selection prompt is opened.
C11_EmptyIgnoreFile ==
  completedEmpty =>
    /\ ".gitignore" \in Range(dirEntries)
    /\ gitignore = ""
    /\ emptyListing => Opened("createGitignore") = 0

\* C11 amended: whenever createGitignore completes with an empty listing or
\* an empty selection, .gitignore exists; it is empty when there was none
\* before the run and keeps its earlier content otherwise; with an empty
\* listing no selection prompt is opened.
C11_TouchedIgnoreFile ==
  completedEmpty =>
    /\ ".gitignore" \in Range(dirEntries)
    /\ gitignore = IF atStart.gitignore = Absent THEN ""
                   ELSE atStart.gitignore
    /\ emptyListing => Opened("createGitignore") = 0

C11_Witness ==
  /\ writes = 1
  /\ ignorePrompt.answered
  /\ ignorePrompt.ignore = <<>>
  /\ atStart.gitignore = "old"
  /\ gitignore = "old"

\* the selected entries, one per line (selections of up to three entries)
linesOf(sel) ==
  CASE Len(sel) = 1 -> sel[1]
    [] Len(sel) = 2 -> sel[1] \o "\n" \o sel[2]
    [] Len(sel) = 3 -> sel[1] \o "\n" \o sel[2] \o "\n" \o sel[3]

\* C12: the choices of the selection prompt are the listing without .git
\* and .gitignore, and after a non-empty selection the whole content of
\* .gitignore is the selected entries in selection order, separated by
\* single newlines, with nothing before or after.
C12_IgnoreFileContent ==
  /\ Opened("createGitignore") > 0 =>
       /\ ".git" \notin Range(ignorePrompt.choices)
       /\ ".gitignore" \notin Range(ignorePrompt.choices)
       /\ Range(ignorePrompt.choices) =
            Range(atStart.dirEntries) \ {".git", ".gitignore"}
  /\ (ignorePrompt.answered /\ ignorePrompt.ignore /= <<>>) =>
       /\ Range(ignorePrompt.ignore) \subseteq Range(ignorePrompt.choices)
       /\ gitignore = linesOf(ignorePrompt.ignore)
       /\ ignorePrompt.ignore = <<"node_modules">> =>
            gitignore = "node_modules"

C12_Witness ==
  /\ atStart.dirEntries = <<".gitignore", "README.md", "node_modules">>
  /\ ignorePrompt.ignore = <<"README.md", "node_modules">>
  /\ gitignore = "README.md\nnode_modules"

\* C13: the credential prompt hands off only a non-empty username and a
\* non-empty password: an empty answer leaves the same question pending, so
\* the basic authentication is never made with an empty username or
\* password; the two-factor answer is accepted empty or not.
C13_CredentialsValidated ==
  /\ pc = "cred_username" => credentials = NoCredentials
  /\ pc = "cred_password" =>
       /\ Truthy(credentials.username)
       /\ credentials.password = Undefined
  /\ pc = "cred_twofactor" =>
       /\ Truthy(credentials.username)
       /\ Truthy(credentials.password)
       /\ credentials.twofactor = Undefined
  /\ Count("authenticate") > 0 =>
       /\ credentials.username \notin {"", Undefined}
       /\ credentials.password \notin {"", Undefined}
       /\ credentials.twofactor /= Undefined
  /\ pc = "token_wait" =>
       /\ auth.type = "basic"
       /\ auth.username = credentials.username
       /\ auth.password = credentials.password

C13_Witness ==
  /\ pc = "token_wait"
  /\ rejected = 2
  /\ credentials.twofactor = ""

\* C14: repos.create is never called with an empty name, and never before
\* the visibility question has been answered with public or private.
C14_RepoRequestGuarded ==
  /\ \A i \in 1..Len(calls) :
       calls[i].op = "repos.create" =>
         /\ calls[i].data.name \notin {"", Undefined, Null}
         /\ answers.visibility \in {"public", "private"}
         /\ calls[i].data.private = (answers.visibility = "private")
  /\ pc \in {"repo_name", "repo_description", "repo_visibility"} =>
       /\ Count("repos.create") = 0
       /\ answers.visibility = Undefined

C14_Witness ==
  /\ Count("repos.create") = 1
  /\ argv = <<>>
  /\ cwdBase = ""
  /\ rejected >= 1
  /\ answers.name = "other"
  /\ answers.visibility = "private"

\* C15: the request of repos.create is {name, description, private} taken
\* from the answers, private being true exactly for the visibility
\* 'private'; when every default is accepted, name is the first positional
\* argument if there is one and the directory's base name otherwise,
\* description is the second positional argument if there is one and no
\* text otherwise, and private is false.
C15_RepoRequestAssembled ==
  \A i \in 1..Len(calls) :
    calls[i].op = "repos.create" =>
      /\ calls[i].data.name = answers.name
      /\ calls[i].data.description = answers.description
      /\ calls[i].data.private = (answers.visibility = "private")
      /\ typed.name /= "" => answers.name = typed.name
      /\ typed.description /= "" => answers.description = typed.description
      /\ (typed.name = "" /\ typed.description = ""
            /\ answers.visibility = "public") =>
           /\ calls[i].data.name = IF Len(argv) >= 1 THEN argv[1] ELSE cwdBase
           /\ IF Len(argv) >= 2
                THEN calls[i].data.description = argv[2]
                ELSE calls[i].data.description \in {"", Null}
           /\ calls[i].data.private = FALSE
           /\ argv = <<"myrepo", "a test repo">> =>
                calls[i].data = [name |-> "myrepo",
                                 description |-> "a test repo",
                                 private |-> FALSE]

C15_Witness ==
  /\ Count("repos.create") = 1
  /\ argv = <<"myrepo", "a test repo">>
  /\ typed = [name |-> "", description |-> ""]
  /\ calls[Len(calls)].data = [name |-> "myrepo",
                               description |-> "a test repo",
                               private |-> FALSE]

\* C16: the preferences hold either what they held at start-up or exactly
\* the token returned by a successful authorization.create call; the
\* username, the password and the two-factor code are never written.
C16_StoreHoldsOnlyToken ==
  /\ \/ prefs = atStart.prefs
     \/ /\ createResult.called
        /\ createResult.err = NoErr
        /\ Truthy(createResult.value)
        /\ prefs = createResult.value
  /\ prefs /= atStart.prefs =>
       prefs \notin {credentials.username, credentials.password,
                     credentials.twofactor}

C16_Witness ==
  /\ atStart.prefs = ""
  /\ prefs = "tok_new"
  /\ credentials.twofactor = "123456"

\* the run has ended: the script has nothing pending and no spinner is
\* left running; after a git failure this asks for setupRepo's callback
\* to have been called
terminated ==
  /\ pc \in {"exited", "auth_failed", "auth_notoken", "crashed",
             "repo_failed", "repo_nourl", "git_failed", "done"}
  /\ ~spinner
  /\ pc = "git_failed" => setupResult.called

\* C17: every run in which each prompt is answered and each call and git
\* command returns eventually reaches an end (start-up exit, authentication
\* failure, repository-creation failure, git failure or success), no stage
\* being left waiting for a continuation that is never invoked.
C17_EventuallyTerminates == <>terminated

\* the stage the script is in
stageOf(p) ==
  CASE p \in {"start", "exited"} -> 1
    [] p \in {"cred_username", "cred_password", "cred_twofactor",
              "token_wait", "auth_failed", "auth_notoken", "crashed"} -> 2
    [] p \in {"repo_name", "repo_description", "repo_visibility",
              "repo_wait", "repo_failed", "repo_nourl"} -> 3
    [] p = "ignore_select" -> 4
    [] p \in {"git_run", "git_failed", "done"} -> 5

\* C18: the stages run in the order check, authentication, repository
\* creation, .gitignore generation, git chain: a stage starts only after
\* the one before it succeeded, starts at most once, and nothing of a later
\* stage has happened while an earlier one is in progress; .gitignore is
\* written only after the repository was created and the first git command
\* runs only after .gitignore was written.
C18_StageOrder ==
  /\ Opened("getGithubCredentials") <= 1
  /\ Opened("createRepo") <= 1
  /\ Opened("createGitignore") <= 1
  /\ Count("repos.create") <= 1
  /\ writes <= 1
  /\ (prefsRead \/ prompts /= <<>> \/ calls /= <<>>) =>
       ".git" \notin Range(atStart.dirEntries)
  /\ createRepoStarted =>
       (authResult.called /\ authResult.err = NoErr /\ Truthy(authResult.value))
  /\ (Opened("createGitignore") > 0 \/ writes > 0) =>
       /\ repoResult.called /\ repoResult.err = NoErr
       /\ Truthy(repoResult.value)
  /\ (gitQueue /= <<>> \/ gitCmds /= <<>>) =>
       /\ writes = 1
       /\ gitignore /= Absent
       /\ Opened("createGitignore") > 0 => ignorePrompt.answered
  /\ stageOf(pc) <= 2 => ~createRepoStarted
  /\ stageOf(pc) <= 3 => Opened("createGitignore") = 0 /\ writes = 0
  /\ stageOf(pc) <= 4 => gitQueue = <<>> /\ gitCmds = <<>>

C18_Witness ==
  /\ pc = "git_run"
  /\ Len(gitCmds) = 1
  /\ createResult.called
  /\ ignorePrompt.answered

\* the run that ended last before this one
lastRun == earlier[Len(earlier)]

\* C19 as stated: a token obtained through the exchange is in the
\* preferences when githubAuth reports it, and a following run started
\* with those preferences is authenticated with the same token without a
\* basic authentication or authorization.create call, whatever happened
\* later in the first run.
C19_TokenReusedByNextRun ==
  /\ (authenticated /\ createResult.called) => prefs = authResult.value
  /\ (earlier /= <<>> /\ lastRun.exchanged /\ pc /= "start") =>
       /\ authResult = [called |-> TRUE, err |-> NoErr,
                        value |-> lastRun.token]
       /\ Count("authenticate") = 0
       /\ Count("authorization.create") = 0

\* C19 amended: as stated, for a following run whose working directory
\* holds no .git at start-up.
C19_TokenReusedOutsideRepository ==
  /\ (authenticated /\ createResult.called) => prefs = authResult.value
  /\ (earlier /= <<>> /\ lastRun.exchanged) => atStart.prefs = lastRun.token
  /\ (earlier /= <<>> /\ lastRun.exchanged /\ pc /= "start"
        /\ ".git" \notin Range(atStart.dirEntries)) =>
       /\ authResult = [called |-> TRUE, err |-> NoErr,
                        value |-> lastRun.token]
       /\ Count("authenticate") = 0
       /\ Count("authorization.create") = 0

C19_Witness ==
  /\ earlier /= <<>>
  /\ lastRun.exchanged
  /\ lastRun.token = "tok_new"
  /\ pc = "repo_wait"
  /\ authResult.value = "tok_new"

\* C20: whenever repos.create has been called, the client's authentication
\* is the oauth token githubAuth delivered, set before the call: never the
\* basic credentials of the exchange and never none.
C20_RepoCreatedUnderToken ==
  \A i \in 1..Len(calls) :
    calls[i].op = "repos.create" =>
      /\ calls[i].auth = "oauth"
      /\ auth.type = "oauth"
      /\ Truthy(auth.token)
      /\ auth.token = authResult.value
      /\ auth.username = Undefined /\ auth.password = Undefined

C20_Witness ==
  /\ Count("repos.create") = 1
  /\ Count("authenticate") = 1
  /\ auth.token = "tok_new"

====
